---- MODULE Spec2Model ----
(***************************************************************************)
(* A model of table2md.MarkdownTable (src/table2md/__init__.py).           *)
(*                                                                         *)
(* A Python str is modelled as a sequence of one-character strings, a      *)
(* Python list of rows as a sequence of references into a heap of row      *)
(* objects, so that sharing between the caller's list and the table's      *)
(* self.data is part of the state.                                         *)
(***************************************************************************)
EXTENDS Integers, Sequences, FiniteSets

\* Bounds of the model.
MaxSize == 10      \* rows + cells + characters of a list the caller builds
AliasSize == 5     \* the same, where the caller and the table are mutated
MaxItems == 2      \* mappings or records handed to a builder

VARIABLES
    pc,      \* the caller's position: "start", "built", "failed", "done"
    heap,    \* row list objects: object id -> sequence of cells
    input,   \* the caller's own 2D list: sequence of object ids
    data,    \* self.data of the table: sequence of object ids
    same,    \* TRUE when self.data is the caller's list object itself
    call,    \* the call that built the table, and its argument
    out,     \* the text written to the output sink so far
    ret      \* the last call and its outcome

vars == <<pc, heap, input, data, same, call, out, ret>>

-----------------------------------------------------------------------------
\* Strings and sequences.

NL == "\n"

Range(s) == {s[i] : i \in 1..Len(s)}

Repeat(c, n) == [i \in 1..n |-> c]

RECURSIVE Concat(_)
Concat(parts) ==
    IF parts = <<>> THEN <<>> ELSE Head(parts) \o Concat(Tail(parts))

\* sep.join(parts)
RECURSIVE join(_, _)
join(sep, parts) ==
    IF parts = <<>> THEN <<>>
    ELSE IF Len(parts) = 1 THEN parts[1]
    ELSE parts[1] \o sep \o join(sep, Tail(parts))

SetMax(S) == CHOOSE m \in S : \A x \in S : x <= m
SetMin(S) == CHOOSE m \in S : \A x \in S : m <= x

RECURSIVE Sum(_)
Sum(s) == IF s = <<>> THEN 0 ELSE Head(s) + Sum(Tail(s))

\* All sequences over S of length at most n.
SeqsUpTo(S, n) == UNION {[1..k -> S] : k \in 0..n}

\* rows + cells + characters of a 2D list of strings
Size(g) ==
    Len(g) + Sum([r \in 1..Len(g) |->
                    Len(g[r]) + Sum([c \in 1..Len(g[r]) |-> Len(g[r][c])])])

-----------------------------------------------------------------------------
\* A bug: the padding always halved downwards on the left.
centerLeft_floor(marg, width) == marg \div 2

\* str.center(width) of CPython: the padding is width - len; the left part is
\* half of it, plus one when both the padding and the width are odd.
centerLeft(marg, width) ==
    (marg \div 2) + (IF marg % 2 = 1 /\ width % 2 = 1 THEN 1 ELSE 0)

center(cell, width) ==
    LET marg == width - Len(cell) IN
    IF marg <= 0 THEN cell
    ELSE Repeat(" ", centerLeft(marg, width)) \o cell
         \o Repeat(" ", marg - centerLeft(marg, width))

\* str.ljust(width)
ljust(cell, width) ==
    IF width <= Len(cell) THEN cell
    ELSE cell \o Repeat(" ", width - Len(cell))

\* zip(*d): one tuple per column, as many as the shortest row has cells.
zip(d) ==
    IF d = <<>> THEN <<>>
    ELSE LET n == SetMin({Len(d[r]) : r \in 1..Len(d)})
         IN [c \in 1..n |-> [r \in 1..Len(d) |-> d[r][c]]]

col_sizes(d) ==
    LET cols == zip(d) IN
    [c \in 1..Len(cols) |-> SetMax({Len(cols[c][r]) : r \in 1..Len(d)})]

\* The lookups that raise IndexError: self.data[0] of an empty list, and
\* col_sizes[col_idx] for a cell beyond the columns zip() found.
strRaises(d, sizes) ==
    \/ d = <<>>
    \/ \E r \in 1..Len(d) : Len(d[r]) > Len(sizes)

headerLine(header, sizes) ==
    <<"|">>
    \o join(<<"|">>, [c \in 1..Len(header) |-> center(header[c], sizes[c] + 2)])
    \o <<"|", NL>>

\* A bug: the separator as wide as the cells, without the 2 of the padding.
separatorLine_narrow(sizes) ==
    <<"|">>
    \o join(<<"|">>, [c \in 1..Len(sizes) |-> Repeat("-", sizes[c])])
    \o <<"|", NL>>

separatorLine(sizes) ==
    <<"|">>
    \o join(<<"|">>, [c \in 1..Len(sizes) |-> Repeat("-", sizes[c] + 2)])
    \o <<"|", NL>>

dataLine(row, sizes) ==
    <<"|", " ">>
    \o join(<<" ", "|", " ">>, [c \in 1..Len(row) |-> ljust(row[c], sizes[c])])
    \o <<" ", "|", NL>>

\* A bug: every row cut to the columns zip() found, instead of the lookup
\* col_sizes[col_idx] failing.
str_truncating(d) ==
    LET sizes == col_sizes(d)
        cut(row) == SubSeq(row, 1, Len(sizes))
    IN IF d = <<>> THEN [err |-> "IndexError", text |-> <<>>]
       ELSE [err |-> "none",
             text |-> headerLine(cut(d[1]), sizes) \o separatorLine(sizes)
                      \o Concat([r \in 1..(Len(d) - 1) |->
                                    dataLine(cut(d[r + 1]), sizes)])]

\* MarkdownTable.__str__
__str__(d) ==
    LET sizes == col_sizes(d) IN
    IF strRaises(d, sizes) THEN [err |-> "IndexError", text |-> <<>>]
    ELSE [err |-> "none",
          text |-> headerLine(d[1], sizes) \o separatorLine(sizes)
                   \o Concat([r \in 1..(Len(d) - 1) |-> dataLine(d[r + 1], sizes)])]

-----------------------------------------------------------------------------
\* Values of any type, as the builders take them: an int or a str.

IntV(n) == [kind |-> "int", n |-> n, s |-> <<>>]
StrV(s) == [kind |-> "str", n |-> 0, s |-> s]

Digits == <<"0", "1", "2", "3", "4", "5", "6", "7", "8", "9">>

RECURSIVE Decimal(_)
Decimal(n) ==
    IF n < 10 THEN <<Digits[n + 1]>>
    ELSE Decimal(n \div 10) \o <<Digits[(n % 10) + 1]>>

\* builtin str(v)
ToStr(v) == IF v.kind = "int" THEN Decimal(v.n) ELSE v.s

\* f"{v:0>3}", the custom formatting of the records' serialize()
ZeroPad(v) ==
    LET t == ToStr(v) IN
    IF Len(t) >= 3 THEN t ELSE Repeat("0", 3 - Len(t)) \o t

Values == {IntV(7), IntV(12), StrV(<<"a">>)}

\* Keys of mappings and field names of records.
Names == {<<"k">>, <<"v", "v">>}

\* The orderings of the subsets of Names.
NameSeqs ==
    {f \in SeqsUpTo(Names, Cardinality(Names)) :
        \A i, j \in 1..Len(f) : i # j => f[i] # f[j]}

\* A mapping: its items in insertion order, the keys distinct.
Mappings ==
    UNION {{[i \in 1..Len(f) |-> <<f[i], vs[i]>>] : vs \in [1..Len(f) -> Values]} :
            f \in NameSeqs}

\* A record with named fields (a NamedTuple with a serialize method).
Records ==
    UNION {{[fields |-> f, values |-> vs] : vs \in [1..Len(f) -> Values]} :
            f \in NameSeqs}

\* The rows of values a 2D iterable yields.
ValueRows == {r.values : r \in Records}

keys(d) == [i \in 1..Len(d) |-> d[i][1]]

has(d, k) == \E i \in 1..Len(d) : d[i][1] = k

\* d[k], for a key that d has
item(d, k) == d[CHOOSE i \in 1..Len(d) : d[i][1] = k][2]

\* [str(cell) for cell in row] for row in iters
from_2d_rows(iters) ==
    [r \in 1..Len(iters) |-> [c \in 1..Len(iters[r]) |-> ToStr(iters[r][c])]]

\* A bug: d.get(k, "") in place of d[k].
dict_row_default(d, header) ==
    [err |-> "none",
     row |-> [c \in 1..Len(header) |->
                IF has(d, header[c]) THEN ToStr(item(d, header[c])) ELSE <<>>]]

\* [str(d[k]) for k in header]: KeyError at the first key d lacks
dict_row(d, header) ==
    IF \E c \in 1..Len(header) : ~has(d, header[c])
    THEN [err |-> "KeyError", row |-> <<>>]
    ELSE [err |-> "none", row |-> [c \in 1..Len(header) |-> ToStr(item(d, header[c]))]]

\* The loop of from_dicts over dicts[i..], with data built so far.
RECURSIVE from_dicts_loop(_, _, _)
from_dicts_loop(dicts, i, data_) ==
    IF i > Len(dicts) THEN [err |-> "none", data |-> data_]
    ELSE LET withHeader == IF data_ = <<>> THEN <<keys(dicts[i])>> ELSE data_
             row == dict_row(dicts[i], withHeader[1])
         IN IF row.err # "none" THEN [err |-> row.err, data |-> <<>>]
            ELSE from_dicts_loop(dicts, i + 1, Append(withHeader, row.row))

\* MarkdownTable.from_dicts
from_dicts(dicts) == from_dicts_loop(dicts, 1, <<>>)

\* [str(i) for i in nt]
namedtuple_row(nt) == [c \in 1..Len(nt.values) |-> ToStr(nt.values[c])]

\* list(nt.serialize())
serialize(nt) == [c \in 1..Len(nt.values) |-> ZeroPad(nt.values[c])]

\* A bug: every row reshaped to the header's fields.
from_namedtuples_reshaped(named_tuples) ==
    IF named_tuples = <<>> THEN <<>>
    ELSE <<named_tuples[1].fields>>
         \o [i \in 1..Len(named_tuples) |->
                [c \in 1..Len(named_tuples[1].fields) |->
                    IF c <= Len(named_tuples[i].values)
                    THEN ToStr(named_tuples[i].values[c]) ELSE <<>>]]

\* MarkdownTable.from_namedtuples
from_namedtuples(named_tuples) ==
    IF named_tuples = <<>> THEN <<>>
    ELSE <<named_tuples[1].fields>>
         \o [i \in 1..Len(named_tuples) |-> namedtuple_row(named_tuples[i])]

\* MarkdownTable.from_serializable
from_serializable(named_tuples) ==
    IF named_tuples = <<>> THEN <<>>
    ELSE <<named_tuples[1].fields>>
         \o [i \in 1..Len(named_tuples) |-> serialize(named_tuples[i])]

-----------------------------------------------------------------------------
\* The heap of row objects.

\* The 2D list a sequence of references denotes.
Deref(h, l) == [i \in 1..Len(l) |-> h[l[i]]]

\* The table's grid and the caller's list, as they are now.
Grid == Deref(heap, data)
CallerList == Deref(heap, input)

\* The place of x in the sequence s.
Index(s, x) == CHOOSE k \in 1..Len(s) : s[k] = x

\* What a step leaves of the lists: the heap, the caller's list, self.data
\* and whether self.data is the caller's list object.
Refs(h, i, d, s) == [heap |-> h, input |-> i, data |-> d, same |-> s]

\* Object ids are names only: the objects are renumbered in the order the
\* caller's list and then self.data reach them, and the unreachable dropped.
Renumbered(refs) ==
    LET order == refs.input
                 \o SelectSeq(refs.data, LAMBDA x : x \notin Range(refs.input))
    IN Refs([k \in 1..Len(order) |-> refs.heap[order[k]]],
            [k \in 1..Len(refs.input) |-> Index(order, refs.input[k])],
            [k \in 1..Len(refs.data) |-> Index(order, refs.data[k])],
            refs.same)

\* An object id not in use.
FreshId(h) == Len(h) + 1

\* The rows g stored as new objects after those of h, and their ids.
Stored(h, g) == h \o g
NewIds(h, g) == [k \in 1..Len(g) |-> Len(h) + k]

\* A new outer list of new row objects holding g, for self.data.
NewLists(h, l, g) == Refs(Stored(h, g), l, NewIds(h, g), FALSE)

\* A bug: the constructor copying the rows it is given.
init_copying(h, l) == NewLists(h, l, Deref(h, l))

\* A bug: a new outer list of the caller's own row objects.
from_2d_iterable_shared_rows(h, l) == Refs(h, l, l, FALSE)

\* MarkdownTable.__init__(data): self.data = data, the caller's own object.
__init__(h, l) == Refs(h, l, l, TRUE)

\* MarkdownTable.from_2d_iterable(iters) of the caller's list l: the
\* comprehension makes a new outer list of new rows.
from_2d_iterable(h, l) ==
    NewLists(h, l, from_2d_rows([r \in 1..Len(l) |->
                                    [c \in 1..Len(h[l[r]]) |-> StrV(h[l[r]][c])]]))

Outcome(op, err, rows, text, end) ==
    [op |-> op, err |-> err, rows |-> rows, text |-> text, end |-> end]

Called(by, arg) == [by |-> by, arg |-> arg]

-----------------------------------------------------------------------------
\* MarkdownTable.validate and MarkdownTable.print

\* A bug: enumerate() counting from 0.
invalid_rows_from_zero(d) ==
    SelectSeq([i \in 1..(Len(d) - 1) |-> i - 1],
              LAMBDA idx : Len(d[idx + 2]) # Len(d[1]))

\* enumerate(self.data[1:], 1) filtered on the cell count
invalid_rows(d) ==
    SelectSeq([i \in 1..(Len(d) - 1) |-> i],
              LAMBDA idx : Len(d[idx + 1]) # Len(d[1]))

\* A bug: a header without data rows let through.
validate_header_alone_ok(d) ==
    IF d = <<>> THEN [err |-> "NoData", rows |-> <<>>]
    ELSE IF invalid_rows(d) # <<>>
         THEN [err |-> "MisalignedRows", rows |-> invalid_rows(d)]
         ELSE [err |-> "none", rows |-> <<>>]

\* MarkdownTable.validate: the exception raised and the rows it names
validate(d) ==
    IF d = <<>> THEN [err |-> "NoData", rows |-> <<>>]
    ELSE IF Len(d) = 1 THEN [err |-> "NoData", rows |-> <<>>]
    ELSE IF invalid_rows(d) # <<>>
         THEN [err |-> "MisalignedRows", rows |-> invalid_rows(d)]
         ELSE [err |-> "none", rows |-> <<>>]

\* A bug: the text written without validating first.
print_unvalidated(d, end, sink) ==
    IF __str__(d).err # "none"
    THEN [err |-> __str__(d).err, rows |-> <<>>, sink |-> sink]
    ELSE [err |-> "none", rows |-> <<>>, sink |-> sink \o __str__(d).text \o end]

\* MarkdownTable.print(end, file): the exception raised and the sink after it
print(d, end, sink) ==
    IF validate(d).err # "none"
    THEN [err |-> validate(d).err, rows |-> validate(d).rows, sink |-> sink]
    ELSE IF __str__(d).err # "none"
    THEN [err |-> __str__(d).err, rows |-> <<>>, sink |-> sink]
    ELSE [err |-> "none", rows |-> <<>>, sink |-> sink \o __str__(d).text \o end]

-----------------------------------------------------------------------------
Init ==
    /\ pc = "start"
    /\ heap = <<>>
    /\ input = <<>>
    /\ data = <<>>
    /\ same = FALSE
    /\ call = Called("none", <<>>)
    /\ out = <<>>
    /\ ret = Outcome("none", "none", <<>>, <<>>, <<>>)

\* The lists after a step.
Becomes(refs) ==
    LET r == Renumbered(refs) IN
    /\ heap' = r.heap
    /\ input' = r.input
    /\ data' = r.data
    /\ same' = r.same

\* The last row object of the caller's list.
LastRow == input[Len(input)]

\* The caller builds a list: data.append([])
NewRow ==
    /\ pc = "start"
    /\ Size(CallerList) < MaxSize
    /\ Becomes(Refs(Stored(heap, <<<<>>>>), Append(input, FreshId(heap)), data, same))
    /\ UNCHANGED <<pc, call, out, ret>>

\* data[-1].append("")
NewCell ==
    /\ pc = "start"
    /\ input # <<>>
    /\ Size(CallerList) < MaxSize
    /\ Becomes(Refs([heap EXCEPT ![LastRow] = Append(@, <<>>)], input, data, same))
    /\ UNCHANGED <<pc, call, out, ret>>

\* data[-1][-1] += "a"
NewChar ==
    /\ pc = "start"
    /\ input # <<>>
    /\ heap[LastRow] # <<>>
    /\ Size(CallerList) < MaxSize
    /\ Becomes(Refs([heap EXCEPT ![LastRow][Len(heap[LastRow])] = Append(@, "a")],
                    input, data, same))
    /\ UNCHANGED <<pc, call, out, ret>>

\* The table is built and bound to what the constructor left.
Built(by, arg, refs) ==
    /\ Becomes(refs)
    /\ call' = Called(by, arg)
    /\ pc' = "built"
    /\ ret' = Outcome(by, "none", <<>>, <<>>, <<>>)
    /\ UNCHANGED out

\* t = MarkdownTable(data)
Construct ==
    /\ pc = "start"
    /\ Built("__init__", <<>>, __init__(heap, input))

\* t = MarkdownTable.from_2d_iterable(data), data the caller's list
From2dList ==
    /\ pc = "start"
    /\ Built("from_2d_iterable", <<>>, from_2d_iterable(heap, input))

\* t = MarkdownTable.from_2d_iterable(iters), iters a generator of rows
From2dIterable ==
    /\ pc = "start"
    /\ input = <<>>
    /\ \E iters \in SeqsUpTo(ValueRows, MaxItems) :
        Built("from_2d_iterable", iters, NewLists(heap, input, from_2d_rows(iters)))

\* t = MarkdownTable.from_dicts(dicts)
FromDicts ==
    /\ pc = "start"
    /\ input = <<>>
    /\ \E dicts \in SeqsUpTo(Mappings, MaxItems) :
        LET r == from_dicts(dicts) IN
        IF r.err = "none"
        THEN Built("from_dicts", dicts, NewLists(heap, input, r.data))
        ELSE /\ pc' = "failed"
             /\ call' = Called("from_dicts", dicts)
             /\ ret' = Outcome("from_dicts", r.err, <<>>, <<>>, <<>>)
             /\ UNCHANGED <<heap, input, data, same, out>>

\* t = MarkdownTable.from_namedtuples(named_tuples)
FromNamedtuples ==
    /\ pc = "start"
    /\ input = <<>>
    /\ \E nts \in SeqsUpTo(Records, MaxItems) :
        Built("from_namedtuples", nts, NewLists(heap, input, from_namedtuples(nts)))

\* t = MarkdownTable.from_serializable(named_tuples)
FromSerializable ==
    /\ pc = "start"
    /\ input = <<>>
    /\ \E nts \in SeqsUpTo(Records, MaxItems) :
        Built("from_serializable", nts, NewLists(heap, input, from_serializable(nts)))

\* t.validate()
Validate ==
    /\ pc = "built"
    /\ LET r == validate(Grid) IN
        ret' = Outcome("validate", r.err, r.rows, <<>>, <<>>)
    /\ UNCHANGED <<pc, heap, input, data, same, call, out>>

\* str(t)
Str ==
    /\ pc = "built"
    /\ LET r == __str__(Grid) IN
        ret' = Outcome("str", r.err, <<>>, r.text, <<>>)
    /\ UNCHANGED <<pc, heap, input, data, same, call, out>>

\* t.print(end=end, file=f), the last thing the caller does
PrintTable ==
    /\ pc = "built"
    /\ \E end \in {<<>>, <<NL>>} :
        LET r == print(Grid, end, out) IN
        /\ out' = r.sink
        /\ ret' = Outcome("print", r.err, r.rows, <<>>, end)
    /\ pc' = "done"
    /\ UNCHANGED <<heap, input, data, same, call>>

Next ==
    \/ NewRow
    \/ NewCell
    \/ NewChar
    \/ Construct
    \/ From2dIterable
    \/ FromDicts
    \/ FromNamedtuples
    \/ FromSerializable
    \/ Validate
    \/ Str
    \/ PrintTable

Spec == Init /\ [][Next]_vars

-----------------------------------------------------------------------------
\* Mutations of a list before or after the table is built, through the
\* caller's reference ("caller": data[i][j] = c, ...) or through the table's
\* ("table": t.data[i][j] = c, ...).

ListOf(who) == IF who = "caller" THEN input ELSE data

CanMutate(who) ==
    \/ who = "caller" /\ pc \in {"start", "built"}
    \/ who = "table" /\ pc = "built"

\* A row object changed in place: every list holding it sees the change.
RowChanged(id, row) == Refs([heap EXCEPT ![id] = row], input, data, same)

\* The outer list of `who` changed in place: the other reference sees the
\* change when both name the same list object.
ListChanged(who, h, l) ==
    Refs(h, IF who = "caller" \/ same THEN l ELSE input,
            IF who = "table" \/ same THEN l ELSE data, same)

\* The step of a mutation that leaves refs.
Mutated(who, refs) ==
    /\ Size(Deref(refs.heap, IF who = "caller" THEN refs.input ELSE refs.data))
            <= AliasSize
    /\ Becomes(refs)
    /\ ret' = IF pc = "built"
              THEN Outcome(who \o "_mutates", "none", <<>>, <<>>, <<>>)
              ELSE ret
    /\ UNCHANGED <<pc, call, out>>

AliasCells == SeqsUpTo({"a"}, AliasSize - 2)

\* l[i][j] = c
SetCell(who) ==
    /\ CanMutate(who)
    /\ \E i \in 1..Len(ListOf(who)) :
        \E j \in 1..Len(heap[ListOf(who)[i]]) :
            \E c \in AliasCells :
                /\ heap[ListOf(who)[i]][j] # c
                /\ Mutated(who, RowChanged(ListOf(who)[i],
                                           [heap[ListOf(who)[i]] EXCEPT ![j] = c]))

\* l[i].append(c)
AppendCell(who) ==
    /\ CanMutate(who)
    /\ \E i \in 1..Len(ListOf(who)) :
        \E c \in AliasCells :
            Mutated(who, RowChanged(ListOf(who)[i], Append(heap[ListOf(who)[i]], c)))

\* l[i].pop()
PopCell(who) ==
    /\ CanMutate(who)
    /\ \E i \in 1..Len(ListOf(who)) :
        /\ heap[ListOf(who)[i]] # <<>>
        /\ Mutated(who, RowChanged(ListOf(who)[i],
                                   SubSeq(heap[ListOf(who)[i]], 1,
                                          Len(heap[ListOf(who)[i]]) - 1)))

\* l.append([])
AppendRow(who) ==
    /\ CanMutate(who)
    /\ Mutated(who, ListChanged(who, Stored(heap, <<<<>>>>),
                                Append(ListOf(who), FreshId(heap))))

\* l.pop()
PopRow(who) ==
    /\ CanMutate(who)
    /\ ListOf(who) # <<>>
    /\ Mutated(who, ListChanged(who, heap,
                                SubSeq(ListOf(who), 1, Len(ListOf(who)) - 1)))

CallerMutates ==
    \/ SetCell("caller")
    \/ AppendCell("caller")
    \/ PopCell("caller")
    \/ AppendRow("caller")
    \/ PopRow("caller")

TableMutates ==
    \/ SetCell("table")
    \/ AppendCell("table")
    \/ PopCell("table")
    \/ AppendRow("table")
    \/ PopRow("table")

NextAlias ==
    \/ CallerMutates
    \/ TableMutates
    \/ Construct
    \/ From2dList
    \/ Validate
    \/ Str
    \/ PrintTable

SpecAlias == Init /\ [][NextAlias]_vars

-----------------------------------------------------------------------------
\* What the specification says of a grid g, stated without the code.

\* g has a header and data rows, all with the header's cell count.
Aligned(g) == Len(g) >= 2 /\ \A r \in 2..Len(g) : Len(g[r]) = Len(g[1])

\* The data rows whose cell count is not the header's; the first data row is 1.
Mismatched(g) == {r - 1 : r \in {q \in 2..Len(g) : Len(g[q]) # Len(g[1])}}

\* Two rows of g differ in cell count.
Ragged(g) == \E r, q \in 1..Len(g) : Len(g[r]) # Len(g[q])

\* width(c): the longest cell of column c, the header included.
Width(g, c) == SetMax({Len(g[r][c]) : r \in 1..Len(g)})

Spaces(n) == [i \in 1..n |-> " "]
Dashes(n) == [i \in 1..n |-> "-"]

RECURSIVE Joined(_, _)
Joined(sep, parts) ==
    IF Len(parts) = 0 THEN <<>>
    ELSE IF Len(parts) = 1 THEN parts[1]
    ELSE Joined(sep, SubSeq(parts, 1, Len(parts) - 1)) \o sep \o parts[Len(parts)]

\* A cell centered in a field, the odd space of the padding on the right.
CenteredExtraRight(cell, field) ==
    LET pad == field - Len(cell) IN
    Spaces(pad \div 2) \o cell \o Spaces(pad - (pad \div 2))

\* A cell centered in a field, the odd space of the padding on the left when
\* the field is odd and on the right when the field is even.
CenteredByParity(cell, field) ==
    LET pad == field - Len(cell)
        small == pad \div 2
        large == pad - small
    IN IF field % 2 = 1 THEN Spaces(large) \o cell \o Spaces(small)
       ELSE Spaces(small) \o cell \o Spaces(large)

HeaderExtraRight(g) ==
    <<"|">>
    \o Joined(<<"|">>, [c \in 1..Len(g[1]) |->
                          CenteredExtraRight(g[1][c], Width(g, c) + 2)])
    \o <<"|">>

HeaderByParity(g) ==
    <<"|">>
    \o Joined(<<"|">>, [c \in 1..Len(g[1]) |->
                          CenteredByParity(g[1][c], Width(g, c) + 2)])
    \o <<"|">>

SeparatorExpected(g) ==
    <<"|">>
    \o Joined(<<"|">>, [c \in 1..Len(g[1]) |-> Dashes(Width(g, c) + 2)])
    \o <<"|">>

DataExpected(g, r) ==
    <<"|", " ">>
    \o Joined(<<" ", "|", " ">>,
              [c \in 1..Len(g[r]) |->
                  g[r][c] \o Spaces(Width(g, c) - Len(g[r][c]))])
    \o <<" ", "|">>

\* The whole text of an aligned grid.
TextExpected(g) ==
    HeaderByParity(g) \o <<NL>> \o SeparatorExpected(g) \o <<NL>>
    \o Concat([r \in 1..(Len(g) - 1) |-> DataExpected(g, r + 1) \o <<NL>>])

\* The error validation is to end with.
ErrorExpected(g) ==
    IF Len(g) < 2 THEN "NoData"
    ELSE IF Mismatched(g) # {} THEN "MisalignedRows"
    ELSE "none"

\* The newline-terminated lines of a text, without their newlines, and
\* whether the text ends with one.
RECURSIVE LinesFrom(_, _, _)
LinesFrom(text, i, line) ==
    IF i > Len(text) THEN <<>>
    ELSE IF text[i] = NL THEN <<line>> \o LinesFrom(text, i + 1, <<>>)
    ELSE LinesFrom(text, i + 1, Append(line, text[i]))

LinesOf(text) == LinesFrom(text, 1, <<>>)

Terminated(text) == text # <<>> /\ text[Len(text)] = NL

\* The padding of column c's header cell is odd.
OddPadding(g, c) == (Width(g, c) + 2 - Len(g[1][c])) % 2 = 1

-----------------------------------------------------------------------------
\* C1: validate() fails with MisalignedRows exactly when the grid has at
\* least 2 rows and some data row's cell count is not the header's; the
\* failure names exactly those rows, the first data row being 1; an aligned
\* grid validates without error.
C1_MisalignedRows ==
    ret.op = "validate" =>
        /\ ret.err = "MisalignedRows" <=> (Len(Grid) >= 2 /\ Mismatched(Grid) # {})
        /\ ret.err = "MisalignedRows" => Range(ret.rows) = Mismatched(Grid)
        /\ Aligned(Grid) => ret.err = "none"

C1_Witness ==
    /\ ret.op = "validate"
    /\ ret.err = "MisalignedRows"
    /\ Len(Grid) = 4
    /\ ret.rows = <<1, 3>>

\* C2: validate() of a grid with 0 rows or 1 row fails with NoData, whatever
\* the header holds, and validate() of a grid with 2 or more rows never does.
C2_NoData ==
    ret.op = "validate" =>
        /\ Len(Grid) <= 1 => ret.err = "NoData"
        /\ Len(Grid) >= 2 => ret.err # "NoData"

C2_Witness ==
    /\ ret.op = "validate"
    /\ ret.err = "NoData"
    /\ Len(Grid) = 1
    /\ Grid[1] # <<>>

\* C3 as claimed: the first line of the text of a valid grid is the header
\* cells, each centered in width(c) + 2 with the odd space of the padding on
\* the right, joined by "|" between "|" and "|".
C3_HeaderExtraRight ==
    (ret.op = "str" /\ Aligned(Grid)) =>
        /\ LinesOf(ret.text) # <<>>
        /\ LinesOf(ret.text)[1] = HeaderExtraRight(Grid)

\* C3 as amended: the same, with the odd space of the padding on the left
\* when the field width(c) + 2 is odd and on the right when it is even.
C3_HeaderByParity ==
    (ret.op = "str" /\ Aligned(Grid)) =>
        /\ LinesOf(ret.text) # <<>>
        /\ LinesOf(ret.text)[1] = HeaderByParity(Grid)

C3_Witness ==
    /\ ret.op = "str"
    /\ Aligned(Grid)
    /\ ret.err = "none"
    /\ \E c \in 1..Len(Grid[1]) : OddPadding(Grid, c) /\ Width(Grid, c) % 2 = 1
    /\ \E c \in 1..Len(Grid[1]) : OddPadding(Grid, c) /\ Width(Grid, c) % 2 = 0

\* C4: the text of a valid grid of R rows is R + 1 newline-terminated lines,
\* none blank: the header line, the separator of width(c) + 2 dashes per
\* column, and one line per data row in grid order, its cells padded on the
\* right to width(c).
C4_Lines ==
    (ret.op = "str" /\ Aligned(Grid)) =>
        LET lines == LinesOf(ret.text) IN
        /\ ret.err = "none"
        /\ Terminated(ret.text)
        /\ Len(lines) = Len(Grid) + 1
        /\ \A i \in 1..Len(lines) : lines[i] # <<>>
        /\ lines[2] = SeparatorExpected(Grid)
        /\ \A r \in 2..Len(Grid) : lines[r + 1] = DataExpected(Grid, r)

C4_Witness ==
    /\ ret.op = "str"
    /\ Aligned(Grid)
    /\ Len(Grid) = 3
    /\ Len(Grid[1]) = 2
    /\ Grid[3][2] = <<"a">>
    /\ Len(LinesOf(ret.text)) = 4

\* C5: print() of a grid that fails validation fails with the validator's
\* error and writes nothing; print() of a valid grid writes the rendered text
\* followed by the terminator, once.
C5_ValidatesFirst ==
    ret.op = "print" =>
        IF Aligned(Grid)
        THEN ret.err = "none" /\ out = __str__(Grid).text \o ret.end
        ELSE ret.err = ErrorExpected(Grid) /\ out = <<>>

C5_Witness ==
    /\ ret.op = "print"
    /\ ret.err = "NoData"
    /\ Len(Grid) = 1
    /\ __str__(Grid).err = "none"
    /\ out = <<>>

\* C6: from_dicts of a non-empty sequence of mappings takes the header from
\* the first mapping's keys; when every mapping has all of them, the grid has
\* one row per mapping, in order, of the string forms of its values for the
\* header keys; when a mapping lacks one, construction fails with KeyError
\* and there is no grid.
C6_FromDicts ==
    (call.by = "from_dicts" /\ call.arg # <<>>) =>
        LET dicts == call.arg
            header == [c \in 1..Len(dicts[1]) |-> dicts[1][c][1]]
            Has(d, k) == \E i \in 1..Len(d) : d[i][1] = k
            At(d, k) == d[CHOOSE i \in 1..Len(d) : d[i][1] = k][2]
        IN IF \A i \in 1..Len(dicts) : \A c \in 1..Len(header) : Has(dicts[i], header[c])
           THEN /\ pc # "failed"
                /\ Len(Grid) = Len(dicts) + 1
                /\ Grid[1] = header
                /\ \A i \in 1..Len(dicts) :
                    /\ Len(Grid[i + 1]) = Len(header)
                    /\ \A c \in 1..Len(header) :
                        Grid[i + 1][c] = ToStr(At(dicts[i], header[c]))
           ELSE /\ pc = "failed"
                /\ ret.err = "KeyError"
                /\ data = <<>>

C6_Witness ==
    /\ call.by = "from_dicts"
    /\ Len(call.arg) = 2
    /\ Len(call.arg[1]) = 2
    /\ Len(call.arg[2]) = 1
    /\ pc = "failed"
    /\ ret.err = "KeyError"

\* C7: after from_2d_iterable of the caller's list, a mutation of the
\* caller's list leaves the grid, its validation and its text as they were,
\* and a mutation of the grid leaves the caller's list as it was.
C7_NoSharing ==
    [][(call.by = "from_2d_iterable" /\ pc = "built") =>
        /\ ret'.op = "caller_mutates" =>
            /\ Grid' = Grid
            /\ validate(Grid') = validate(Grid)
            /\ __str__(Grid') = __str__(Grid)
        /\ ret'.op = "table_mutates" => CallerList' = CallerList]_vars

C7_Witness ==
    /\ call.by = "from_2d_iterable"
    /\ ret.op = "caller_mutates"
    /\ Aligned(Grid)
    /\ Len(CallerList) = Len(Grid)
    /\ CallerList # Grid

\* C8: a table built by MarkdownTable(data) holds the caller's list itself:
\* the grid is what the caller's list is now, and validate(), str() and
\* print() answer for the caller's list as it is now, the widths included.
C8_Sharing ==
    call.by = "__init__" =>
        /\ Grid = CallerList
        /\ ret.op = "validate" => ret.err = ErrorExpected(CallerList)
        /\ (ret.op = "str" /\ Aligned(CallerList)) =>
                ret.text = TextExpected(CallerList)
        /\ (ret.op = "print" /\ Aligned(CallerList)) =>
                out = TextExpected(CallerList) \o ret.end

C8_Witness ==
    /\ call.by = "__init__"
    /\ ret.op = "caller_mutates"
    /\ Aligned(Grid)
    /\ Grid = CallerList
    /\ Grid[2] = <<<<"a">>>>

\* C9: from_namedtuples and from_serializable of a non-empty sequence of
\* records never fail: the header is the first record's field names and each
\* record gives one row of its own values (of its serialize() output); when a
\* record's shape is not the first's, validate() fails with MisalignedRows.
C9_Records ==
    (call.by \in {"from_namedtuples", "from_serializable"} /\ call.arg # <<>>) =>
        LET nts == call.arg IN
        /\ pc # "failed"
        /\ Len(Grid) = Len(nts) + 1
        /\ Grid[1] = nts[1].fields
        /\ \A i \in 1..Len(nts) :
            /\ Len(Grid[i + 1]) = Len(nts[i].fields)
            /\ \A c \in 1..Len(nts[i].values) :
                Grid[i + 1][c] = IF call.by = "from_namedtuples"
                                 THEN ToStr(nts[i].values[c])
                                 ELSE ZeroPad(nts[i].values[c])
        /\ ((\E i \in 1..Len(nts) : Len(nts[i].fields) # Len(nts[1].fields))
                /\ ret.op = "validate") => ret.err = "MisalignedRows"

C9_Witness ==
    /\ call.by = "from_namedtuples"
    /\ Len(call.arg) = 2
    /\ Len(call.arg[1].fields) = 1
    /\ Len(call.arg[2].fields) = 2
    /\ ret.op = "validate"
    /\ ret.err = "MisalignedRows"

\* C10: str() of a grid with no rows, or with two rows of different cell
\* counts, fails and returns no text; str() of a grid with rows that all have
\* the same cell count, a header alone included, returns text.
C10_StrNeedsRectangle ==
    ret.op = "str" =>
        IF Grid = <<>> \/ Ragged(Grid)
        THEN ret.err # "none" /\ ret.text = <<>>
        ELSE ret.err = "none" /\ ret.text # <<>>

C10_Witness ==
    /\ ret.op = "str"
    /\ Len(Grid) = 2
    /\ Len(Grid[1]) = 1
    /\ Len(Grid[2]) = 2
    /\ ret.err = "IndexError"
    /\ ret.text = <<>>
====
